---- MODULE Spec2Model ----
(***************************************************************************)
(* Model of tools/sync_i18n.py (class I18nSync): the synchronisation of    *)
(* localized Strings.<lang>.resx files with the base Strings.resx.          *)
(*                                                                         *)
(* A resource key is a sequence of tokens, so that re.match of a           *)
(* no-translate pattern is an anchored prefix test.  A file name is the     *)
(* sequence of its dot-separated parts.  A .resx file on disk is a record   *)
(* [state, comment, entries]: state "ok" (well-formed XML), "malformed"     *)
(* (ET.parse raises ParseError) or "absent"; comment is the leading         *)
(* <!-- ... --> annotation ("" when there is none); entries is the          *)
(* sequence of <data name=..><value>text</value></data> nodes, an empty     *)
(* <value/> having text "".  A Python dict is a function on its key set.    *)
(***************************************************************************)
EXTENDS Integers, Sequences, FiniteSets, TLC

VARIABLES
    disk,                   \* file name -> file content (the I18N directory)
    batch_size,             \* self.batch_size
    pc,                     \* position of run()
    runNo,                  \* number of runs started
    base_resources_ordered, \* run(): list of (name, text) read from the base
    localized_files,        \* run(): the directory listing being iterated
    idx,                    \* run(): position of `for filename in localized_files`
    lang_comment,           \* run(): comment of the file being processed
    all_resources,          \* run(): merged entries of the file being processed
    keys_to_translate,      \* run(): list(to_translate.keys())
    i,                      \* run(): batch index of `for i in range(num_batches)`
    batch_keys,             \* run(): keys of the last batch sent
    response,               \* what the API answered to the last call
    translations,           \* run(): result of the last _invoke_ai_translation
    disk0,                  \* history: the directory when the current run started
    merged,                 \* history: file -> all_resources when it was saved
    requested,              \* history: file -> batches sent for it in this run
    outcomes,               \* history: file -> outcome of each batch in this run
    curClean,               \* history: every call of this run answered all keys
    prevClean               \* history: the previous run completed and was clean

vars == << disk, batch_size, pc, runNo, base_resources_ordered, localized_files,
           idx, lang_comment, all_resources, keys_to_translate, i, batch_keys,
           response, translations, disk0, merged, requested, outcomes,
           curClean, prevClean >>

-----------------------------------------------------------------------------
(* Bounds of the model *)

MaxBatchSize == 2
MaxRuns == 2

-----------------------------------------------------------------------------
(* Keys, values and file names *)

LangPrefix == "SettingsSelectionItem_Common_Language_"

\* NO_TRANSLATE_PATTERNS: one pattern, the literal prefix followed by `.*`
NO_TRANSLATE_PATTERNS == { << LangPrefix >> }

K1 == << "Greeting" >>
K2 == << "Farewell" >>
K3 == << "Title", LangPrefix >>
KL == << LangPrefix, "en" >>
KO == << "Obsolete" >>

AllKeys == { K1, K2, K3, KL, KO }

BaseName == << "Strings", "resx" >>
FrName == << "Strings", "fr", "resx" >>
ZhName == << "Strings", "zh", "resx" >>
LocalizedNames == { FrName, ZhName }

EmptyDict == [k \in {} |-> ""]
NoResult == [isNone |-> TRUE, value |-> EmptyDict]
NoResponse == [kind |-> "none", body |-> EmptyDict]

Range(s) == { s[n] : n \in DOMAIN s }

Entry(k, v) == [name |-> k, text |-> v]

Absent == [state |-> "absent", comment |-> "", entries |-> << >>]

Truncated == [state |-> "malformed", comment |-> "", entries |-> << >>]

-----------------------------------------------------------------------------
(* Resource store: _read_resx, _read_resx_ordered, _get_language_comment,  *)
(* _write_resx                                                              *)

\* dict(list of pairs): a later pair with the same name replaces the earlier
DictOf(entries) ==
    [k \in { entries[n].name : n \in DOMAIN entries } |->
        LET last == CHOOSE n \in DOMAIN entries :
                        /\ entries[n].name = k
                        /\ \A m \in DOMAIN entries : m > n => entries[m].name # k
        IN entries[last].text]

\* iteration order of dict(list of pairs): the order of first insertion
RECURSIVE DictKeys(_)
DictKeys(entries) ==
    IF entries = << >> THEN << >>
    ELSE LET front == SubSeq(entries, 1, Len(entries) - 1)
             k == entries[Len(entries)].name
         IN IF k \in { front[n].name : n \in DOMAIN front }
            THEN DictKeys(front)
            ELSE Append(DictKeys(front), k)

ReadResx(file) ==
    IF file.state # "ok" THEN EmptyDict ELSE DictOf(file.entries)

ReadResxOrdered(file) ==
    IF file.state # "ok" THEN << >> ELSE file.entries

GetLanguageComment(file) ==
    IF file.state = "absent" THEN "" ELSE file.comment

RECURSIVE SetToSeq(_)
SetToSeq(S) ==
    IF S = {} THEN << >>
    ELSE LET x == CHOOSE y \in S : TRUE IN << x >> \o SetToSeq(S \ {x})

\* a faulty variant of _write_resx: entries whose key the base lacks are kept
WriteResx_keepOrphans(resources, base_order, comment) ==
    LET kept == SelectSeq(base_order, LAMBDA k : k \in DOMAIN resources)
        rest == SetToSeq(DOMAIN resources \ Range(base_order))
        keys == kept \o rest
    IN [state |-> "ok", comment |-> comment,
        entries |-> [n \in DOMAIN keys |-> Entry(keys[n], resources[keys[n]])]]

WriteResx(resources, base_order, comment) ==
    LET keys == SelectSeq(base_order, LAMBDA k : k \in DOMAIN resources)
    IN [state |-> "ok", comment |-> comment,
        entries |-> [n \in DOMAIN keys |-> Entry(keys[n], resources[keys[n]])]]

-----------------------------------------------------------------------------
(* Synchronizer helpers: the expressions of run()                           *)

BaseResourceKeys(ordered) == [n \in DOMAIN ordered |-> ordered[n].name]

\* a faulty variant of re.match: the pattern must be the whole key
ReMatch_whole(pattern, key) == key = pattern

\* re.match(pattern, key) for a pattern `literal.*`: anchored at the start
ReMatch(pattern, key) ==
    /\ Len(key) >= Len(pattern)
    /\ SubSeq(key, 1, Len(pattern)) = pattern

IsNoTranslate(key) == \E pattern \in NO_TRANSLATE_PATTERNS : ReMatch(pattern, key)

\* a faulty variant of missing_keys: the `if key not in existing_resources` is lost
MissingKeys_all(ordered, existing) == DictKeys(ordered)

MissingKeys(ordered, existing) ==
    SelectSeq(DictKeys(ordered), LAMBDA k : k \notin DOMAIN existing)

\* a faulty variant of num_batches: floor instead of ceiling division
NumBatches_floor(n, size) == n \div size

NumBatches(n, size) == (n + size - 1) \div size

Min(a, b) == IF a < b THEN a ELSE b

\* keys_to_translate[batch_start:batch_end], b the 0-based batch index
BatchKeys(keys, b, size) ==
    SubSeq(keys, b * size + 1, Min(b * size + size, Len(keys)))

\* a faulty variant of the merge loop: all_resources.update(translations)
Merge_update(all, to_translate, tr) ==
    [k \in DOMAIN all \cup DOMAIN tr |-> IF k \in DOMAIN tr THEN tr[k] ELSE all[k]]

\* the loop `for key, value in translations.items()`
Merge(all, to_translate, tr) ==
    LET accepted == { k \in DOMAIN tr :
                        k \notin DOMAIN all /\ k \in Range(to_translate) }
    IN [k \in DOMAIN all \cup accepted |-> IF k \in accepted THEN tr[k] ELSE all[k]]

\* a faulty variant of the batch loop: a failed batch ends the loop
AfterBatch_break(b, n, result) ==
    IF result.isNone \/ DOMAIN result.value = {} \/ b + 1 >= n
    THEN "save" ELSE "batch_loop"

\* where run() goes after batch b (0-based) of n, whatever its result
AfterBatch(b, n, result) == IF b + 1 < n THEN "batch_loop" ELSE "save"

-----------------------------------------------------------------------------
(* Translation provider: _invoke_ai_translation                             *)

TranslatedText == "tr"

\* What the API can answer to a request for `batch`: a transport error
\* (APIError after the client's retries), a message without content, an
\* empty text, a text that is no JSON, or a JSON object over some of the
\* requested keys and at most one key that was not requested.
Mappings(batch) ==
    { [k \in S \cup X |-> TranslatedText] :
        S \in SUBSET Range(batch),
        X \in {{}} \cup { {x} : x \in AllKeys \ Range(batch) } }

Responses(batch) ==
    { [kind |-> c, body |-> EmptyDict] :
        c \in { "transport_error", "no_content", "empty_text", "unparseable" } }
    \cup { [kind |-> "json", body |-> m] : m \in Mappings(batch) }

InvokeAiTranslation(resp) ==
    CASE resp.kind = "transport_error" ->   \* except APIError: return None
            [raised |-> FALSE, result |-> NoResult]
      [] resp.kind = "no_content" ->        \* None.strip(): AttributeError
            [raised |-> TRUE, result |-> NoResult]
      [] resp.kind \in { "empty_text", "unparseable" } ->
            [raised |-> FALSE, result |-> NoResult]  \* except JSONDecodeError
      [] OTHER ->
            [raised |-> FALSE, result |-> [isNone |-> FALSE, value |-> resp.body]]

-----------------------------------------------------------------------------
(* Initial directory contents *)

BaseEntries ==
    << Entry(K1, "Hi"), Entry(KL, "English"), Entry(K2, "Bye"), Entry(K3, "Title") >>

BaseChoices ==
    { Absent,
      [state |-> "malformed", comment |-> "", entries |-> << >>],
      [state |-> "ok", comment |-> "", entries |-> BaseEntries] }

\* nothing translated yet
FileEmpty == [state |-> "ok", comment |-> "Francais", entries |-> << >>]

\* out of base order, with a key the base lacks and an empty value
FilePartial ==
    [state |-> "ok", comment |-> "Francais",
     entries |-> << Entry(K2, "Au revoir"), Entry(KO, "Vieux"), Entry(K1, "") >>]

\* a hand-written value for a no-translate key, no comment
FileLang ==
    [state |-> "ok", comment |-> "",
     entries |-> << Entry(K3, "Titre"), Entry(KL, "Anglais") >>]

\* every base key, in reverse order
FileFull ==
    [state |-> "ok", comment |-> "Francais",
     entries |-> << Entry(K3, "Titre"), Entry(K2, "Au revoir"),
                    Entry(KL, "English"), Entry(K1, "Salut") >>]

\* not well-formed XML, the comment still readable
FileBroken == [state |-> "malformed", comment |-> "Francais", entries |-> << >>]

FileChoices == { FileEmpty, FilePartial, FileLang, FileFull, FileBroken }

\* the second file is drawn from fewer contents, to keep the state space small
SecondFileChoices == { FilePartial, FileLang, FileBroken }

NoBatches == [f \in LocalizedNames |-> << >>]
NoMerged == [f \in LocalizedNames |-> [saved |-> FALSE, resources |-> EmptyDict]]

Init ==
    /\ \E b \in BaseChoices, fr \in FileChoices, zh \in SecondFileChoices :
          disk = [f \in { BaseName, FrName, ZhName } |->
                    IF f = BaseName THEN b ELSE IF f = FrName THEN fr ELSE zh]
    /\ batch_size \in 1..MaxBatchSize
    /\ pc = "idle"
    /\ runNo = 0
    /\ base_resources_ordered = << >>
    /\ localized_files = << >>
    /\ idx = 0
    /\ lang_comment = ""
    /\ all_resources = EmptyDict
    /\ keys_to_translate = << >>
    /\ i = 0
    /\ batch_keys = << >>
    /\ response = NoResponse
    /\ translations = NoResult
    /\ disk0 = disk
    /\ merged = NoMerged
    /\ requested = NoBatches
    /\ outcomes = NoBatches
    /\ curClean = TRUE
    /\ prevClean = FALSE

-----------------------------------------------------------------------------
(* run() *)

\* os.listdir, in a fixed order
ListingOrder == << FrName, BaseName, ZhName >>

ListDir(d) == SelectSeq(ListingOrder, LAMBDA f : d[f].state # "absent")

\* f.startswith('Strings.') and f.endswith('.resx')
IsStringsResx(f) == Len(f) >= 2 /\ f[1] = "Strings" /\ f[Len(f)] = "resx"

\* re.match(r'Strings\.(.+)\.resx', filename)
MatchesLocalized(f) ==
    /\ Len(f) >= 3 /\ f[1] = "Strings"
    /\ \E n \in 3..Len(f) : f[n] = "resx"

filename == localized_files[idx]

locals == << base_resources_ordered, localized_files, idx, lang_comment,
             all_resources, keys_to_translate, i, batch_keys, response,
             translations >>

history == << disk0, merged, requested, outcomes, curClean, prevClean >>

\* lines 197-212: the base is read and the directory listed
Run_Start ==
    /\ pc \in { "idle", "done", "aborted", "killed", "raised" }
    /\ runNo < MaxRuns
    /\ runNo' = runNo + 1
    /\ disk0' = disk
    /\ merged' = NoMerged
    /\ requested' = NoBatches
    /\ outcomes' = NoBatches
    /\ prevClean' = (pc \in { "done", "aborted" } /\ curClean)
    /\ curClean' = TRUE
    /\ IF disk[BaseName].state = "absent"
       THEN /\ pc' = "aborted"
            /\ UNCHANGED << base_resources_ordered, localized_files, idx >>
       ELSE /\ base_resources_ordered' = ReadResxOrdered(disk[BaseName])
            /\ localized_files' = SelectSeq(ListDir(disk), IsStringsResx)
            /\ idx' = 1
            /\ pc' = "file_loop"
    /\ UNCHANGED << disk, batch_size, lang_comment, all_resources,
                    keys_to_translate, i, batch_keys, response, translations >>

\* lines 214-218: a listed name that is no localized file is passed over
File_Skip ==
    /\ pc = "file_loop"
    /\ idx <= Len(localized_files)
    /\ ~MatchesLocalized(filename)
    /\ idx' = idx + 1
    /\ UNCHANGED << disk, batch_size, pc, runNo, base_resources_ordered,
                    localized_files, lang_comment, all_resources,
                    keys_to_translate, i, batch_keys, response, translations,
                    history >>

\* lines 220-245: the file is read, its missing keys found and classified
File_Begin ==
    /\ pc = "file_loop"
    /\ idx <= Len(localized_files)
    /\ MatchesLocalized(filename)
    /\ LET existing_resources == ReadResx(disk[filename])
           missing_keys == MissingKeys(base_resources_ordered, existing_resources)
           base_resources == DictOf(base_resources_ordered)
           copied == { k \in Range(missing_keys) : IsNoTranslate(k) }
       IN /\ lang_comment' = GetLanguageComment(disk[filename])
          /\ all_resources' =
                [k \in DOMAIN existing_resources \cup copied |->
                    IF k \in copied THEN base_resources[k] ELSE existing_resources[k]]
          /\ keys_to_translate' = SelectSeq(missing_keys, LAMBDA k : ~IsNoTranslate(k))
          /\ pc' = IF keys_to_translate' # << >> THEN "batch_loop" ELSE "save"
    /\ i' = 0
    /\ batch_keys' = << >>
    /\ response' = NoResponse
    /\ translations' = NoResult
    /\ UNCHANGED << disk, batch_size, runNo, base_resources_ordered,
                    localized_files, idx, history >>

Outcome(batch, result) ==
    IF result.isNone \/ DOMAIN result.value = {} THEN "failed"
    ELSE IF DOMAIN result.value = Range(batch) THEN "exact"
    ELSE "other"

\* The history of a file's batches: the outcome of each, as long as each
\* failed or answered exactly the requested keys; << "other" >> from the
\* first batch that answered anything else.
Irregular == << "other" >>

Record(log, outcome) ==
    IF log = Irregular \/ outcome = "other" THEN Irregular ELSE Append(log, outcome)

\* lines 248-267: one batch is sent and its result merged
Translate_Batch ==
    /\ pc = "batch_loop"
    /\ LET num_batches == NumBatches(Len(keys_to_translate), batch_size)
           batch == BatchKeys(keys_to_translate, i, batch_size)
       IN \E resp \in Responses(batch) :
            LET call == InvokeAiTranslation(resp)
                result == call.result
            IN /\ response' = resp
               /\ batch_keys' = batch
               /\ requested' = [requested EXCEPT ![filename] = Append(@, batch)]
               /\ IF call.raised
                  THEN /\ pc' = "raised"
                       /\ curClean' = FALSE
                       /\ UNCHANGED << translations, all_resources, i, outcomes >>
                  ELSE /\ translations' = result
                       /\ all_resources' =
                            IF result.isNone \/ DOMAIN result.value = {}
                            THEN all_resources
                            ELSE Merge(all_resources, keys_to_translate, result.value)
                       /\ outcomes' = [outcomes EXCEPT
                                         ![filename] = Record(@, Outcome(batch, result))]
                       /\ curClean' = (curClean /\ ~result.isNone
                                        /\ Range(batch) \subseteq DOMAIN result.value)
                       /\ i' = i + 1
                       /\ pc' = AfterBatch(i, num_batches, result)
    /\ UNCHANGED << disk, batch_size, runNo, base_resources_ordered,
                    localized_files, idx, lang_comment, keys_to_translate,
                    disk0, merged, prevClean >>

\* line 143: open(file_path, 'w') truncates the file; the temporaries of the
\* batch loop are dead from here on and are cleared
Save_Open ==
    /\ pc = "save"
    /\ disk' = [disk EXCEPT ![filename] = Truncated]
    /\ pc' = "writing"
    /\ i' = 0
    /\ batch_keys' = << >>
    /\ response' = NoResponse
    /\ translations' = NoResult
    /\ UNCHANGED << batch_size, runNo, base_resources_ordered, localized_files,
                    idx, lang_comment, all_resources, keys_to_translate, history >>

\* line 144 and the end of the `with`: the content reaches the file
Save_Flush ==
    /\ pc = "writing"
    /\ disk' = [disk EXCEPT ![filename] =
                  WriteResx(all_resources, BaseResourceKeys(base_resources_ordered),
                            lang_comment)]
    /\ merged' = [merged EXCEPT ![filename] =
                    [saved |-> TRUE, resources |-> all_resources]]
    /\ idx' = idx + 1
    /\ pc' = "file_loop"
    /\ lang_comment' = ""
    /\ all_resources' = EmptyDict
    /\ keys_to_translate' = << >>
    /\ UNCHANGED << batch_size, runNo, base_resources_ordered, localized_files,
                    i, batch_keys, response, translations, disk0, requested,
                    outcomes, curClean, prevClean >>

\* line 273: the loop over the files is over
Run_Complete ==
    /\ pc = "file_loop"
    /\ idx > Len(localized_files)
    /\ pc' = "done"
    /\ UNCHANGED << disk, batch_size, runNo, locals, history >>

\* the process is terminated from outside: its memory is gone
Kill ==
    /\ pc \in { "file_loop", "batch_loop", "save", "writing" }
    /\ pc' = "killed"
    /\ base_resources_ordered' = << >>
    /\ localized_files' = << >>
    /\ idx' = 0
    /\ lang_comment' = ""
    /\ all_resources' = EmptyDict
    /\ keys_to_translate' = << >>
    /\ i' = 0
    /\ batch_keys' = << >>
    /\ response' = NoResponse
    /\ translations' = NoResult
    /\ UNCHANGED << disk, batch_size, runNo, history >>

Next ==
    \/ Run_Start
    \/ File_Skip
    \/ File_Begin
    \/ Translate_Batch
    \/ Save_Open
    \/ Save_Flush
    \/ Run_Complete
    \/ Kill

Spec == Init /\ [][Next]_vars

-----------------------------------------------------------------------------
(* Vocabulary of the properties, read off the files on disk *)

BaseOnDisk == IF disk[BaseName].state = "ok" THEN disk[BaseName].entries ELSE << >>
BaseOrder == [n \in DOMAIN BaseOnDisk |-> BaseOnDisk[n].name]
BaseKeySet == Range(BaseOrder)
BaseText(k) == BaseOnDisk[CHOOSE n \in DOMAIN BaseOnDisk : BaseOnDisk[n].name = k].text

Present(file, k) ==
    file.state = "ok" /\ \E n \in DOMAIN file.entries : file.entries[n].name = k
TextOf(file, k) ==
    file.entries[CHOOSE n \in DOMAIN file.entries : file.entries[n].name = k].text
KeysOf(file) == [n \in DOMAIN file.entries |-> file.entries[n].name]

Saved(f) == merged[f].saved
StartsWithLangPrefix(k) == k[1] = LangPrefix

\* the missing translatable keys of f at the start of the run, in base order
TranslateKeysOf(f) ==
    SelectSeq(BaseOrder,
              LAMBDA k : ~Present(disk0[f], k) /\ ~StartsWithLangPrefix(k))

RECURSIVE Flatten(_)
Flatten(seqs) == IF seqs = << >> THEN << >> ELSE Head(seqs) \o Flatten(Tail(seqs))

IsPrefix(s, t) == Len(s) <= Len(t) /\ SubSeq(t, 1, Len(s)) = s

\* the step of Translate_Batch that returns to run()
BatchReturned == pc = "batch_loop" /\ i' = i + 1

-----------------------------------------------------------------------------
(* C1: a key of the provider's result that was not requested in the batch   *)
(* is discarded: the entries merged so far neither gain it nor change it.   *)
C1_UnrequestedKeyDiscarded ==
    [][ (BatchReturned /\ ~translations'.isNone) =>
          \A k \in DOMAIN translations'.value \ Range(batch_keys') :
              IF k \in DOMAIN all_resources
              THEN all_resources'[k] = all_resources[k]
              ELSE k \notin DOMAIN all_resources' ]_vars

(* C2: with the base file absent or unparsable the run is aborted: no       *)
(* localized file is read, no provider call is made, no file is rewritten.  *)
C2_UnusableBaseAborts ==
    disk[BaseName].state # "ok" =>
        /\ disk = disk0
        /\ requested = NoBatches
        /\ pc \notin { "batch_loop", "save", "writing" }

(* C3: a base key present in a localized file before the run keeps its      *)
(* value, in the entries being merged and in the rewritten file, whatever   *)
(* the provider returns.                                                    *)
C3_NonOverwrite ==
    /\ \A f \in LocalizedNames : Saved(f) =>
          \A k \in BaseKeySet : Present(disk0[f], k) =>
              Present(disk[f], k) /\ TextOf(disk[f], k) = TextOf(disk0[f], k)
    /\ pc \in { "batch_loop", "save" } =>
          \A k \in BaseKeySet : Present(disk0[filename], k) =>
              /\ k \in DOMAIN all_resources
              /\ all_resources[k] = TextOf(disk0[filename], k)

C3_Witness ==
    /\ pc \in { "batch_loop", "save" }
    /\ filename = ZhName
    /\ Saved(FrName)
    /\ Present(disk0[FrName], K2)
    /\ ~translations.isNone
    /\ \E k \in DOMAIN translations.value \cap BaseKeySet : Present(disk0[ZhName], k)

(* C4: a rewritten file holds exactly the base key sequence restricted to   *)
(* the keys of its merged entries, each with its merged value; keys the     *)
(* base lacks are not written.                                              *)
C4_BaseOrderProjection ==
    \A f \in LocalizedNames : Saved(f) =>
        /\ disk[f].state = "ok"
        /\ KeysOf(disk[f]) =
              SelectSeq(BaseOrder, LAMBDA k : k \in DOMAIN merged[f].resources)
        /\ \A n \in DOMAIN disk[f].entries :
              disk[f].entries[n].text = merged[f].resources[disk[f].entries[n].name]

C4_Witness ==
    /\ disk[BaseName].state = "ok"
    /\ Saved(FrName) /\ disk0[FrName] = FileFull
    /\ Saved(ZhName) /\ disk0[ZhName] = FilePartial
    /\ KO \in DOMAIN merged[ZhName].resources

(* C5, as stated: every base key matching a no-translate pattern is written *)
(* with the base value, and no request holds such a key.                    *)
C5_NoTranslateAlwaysBaseValue ==
    \A f \in LocalizedNames :
        /\ \A n \in DOMAIN requested[f] : \A k \in Range(requested[f][n]) :
              ~StartsWithLangPrefix(k)
        /\ Saved(f) =>
              \A k \in BaseKeySet : StartsWithLangPrefix(k) =>
                  Present(disk[f], k) /\ TextOf(disk[f], k) = BaseText(k)

(* C5, amended: every base key matching a no-translate pattern that the     *)
(* file lacked before the run is written with the base value, and no        *)
(* request holds a key matching a no-translate pattern.                     *)
C5_MissingNoTranslateCopied ==
    \A f \in LocalizedNames :
        /\ \A n \in DOMAIN requested[f] : \A k \in Range(requested[f][n]) :
              ~StartsWithLangPrefix(k)
        /\ Saved(f) =>
              \A k \in BaseKeySet :
                  (StartsWithLangPrefix(k) /\ ~Present(disk0[f], k)) =>
                      Present(disk[f], k) /\ TextOf(disk[f], k) = BaseText(k)

C5_Witness ==
    /\ Saved(FrName)
    /\ KL \in BaseKeySet
    /\ ~Present(disk0[FrName], KL)
    /\ requested[FrName] # << >>

\* the batches the claims expect of a key sequence: consecutive runs of
\* batch_size keys
CeilDiv(n, size) == CHOOSE q \in 0..n : q * size >= n /\ (q - 1) * size < n

Chunk(keys, j) ==
    LET last == IF j * batch_size < Len(keys) THEN j * batch_size ELSE Len(keys)
    IN SubSeq(keys, (j - 1) * batch_size + 1, last)

ChunkCount(keys) == CeilDiv(Len(keys), batch_size)

ListedLocalized == { f \in LocalizedNames : disk[f].state # "absent" }

(* C6: when every batch of a file either fails or answers exactly the keys  *)
(* requested, the rewritten file holds the keys of each answered batch with *)
(* their translated values and none of the keys of a failed batch; every    *)
(* batch of the file was sent, and a completed run has rewritten every      *)
(* localized file.                                                          *)
C6_PartialFailureIsolation ==
    /\ \A f \in LocalizedNames : (Saved(f) /\ outcomes[f] # Irregular) =>
          LET keys == TranslateKeysOf(f)
          IN /\ Len(outcomes[f]) = ChunkCount(keys)
             /\ \A j \in DOMAIN outcomes[f] : \A k \in Range(Chunk(keys, j)) :
                   IF outcomes[f][j] = "exact"
                   THEN Present(disk[f], k) /\ TextOf(disk[f], k) = TranslatedText
                   ELSE ~Present(disk[f], k)
    /\ (pc = "done" /\ disk[BaseName].state = "ok") =>
          \A f \in ListedLocalized : Saved(f)

C6_Witness ==
    /\ pc = "done"
    /\ outcomes[FrName] = << "exact", "failed", "exact" >>
    /\ outcomes[ZhName] = << "failed", "exact" >>
    /\ Saved(FrName) /\ Saved(ZhName)

(* C7: a run that follows a completed run in which every request was        *)
(* answered for all its keys sends no request and leaves every file as the  *)
(* first run left it.                                                       *)
C7_Idempotence ==
    (pc = "done" /\ prevClean) => (disk = disk0 /\ requested = NoBatches)

C7_Witness ==
    /\ pc = "done" /\ prevClean
    /\ disk[BaseName].state = "ok"
    /\ Present(disk[FrName], K1) /\ TextOf(disk[FrName], K1) = TranslatedText
    /\ Present(disk[ZhName], K1) /\ TextOf(disk[ZhName], K1) = ""

(* C8: on a transport error, a non-parseable response and an empty response *)
(* the provider call returns its failure value, nothing is raised, and      *)
(* run() goes on with the next batch or the save.                           *)
C8_FailureIsReturned ==
    response.kind \in { "transport_error", "unparseable", "empty_text", "no_content" } =>
        /\ pc \in { "batch_loop", "save" }
        /\ translations.isNone

(* C9: when the process is terminated, every localized file is either       *)
(* rewritten in full (the base-ordered projection of its merged entries) or *)
(* exactly what it was before the run.                                      *)
C9_KillLeavesFilesWhole ==
    pc = "killed" =>
        \A f \in LocalizedNames :
            \/ disk[f] = disk0[f]
            \/ /\ Saved(f)
               /\ disk[f] = WriteResx(merged[f].resources, BaseOrder,
                                      GetLanguageComment(disk0[f]))

(* C10: the requests of a file are consecutive batches, in base order, of   *)
(* its missing translatable keys; each holds between 1 and batch_size keys  *)
(* and only the last may hold fewer; one request is made per batch, so once *)
(* the file is rewritten every such key was requested exactly once.         *)
C10_Batching ==
    \A f \in LocalizedNames :
        LET keys == TranslateKeysOf(f)
            count == ChunkCount(keys)
        IN /\ IsPrefix(Flatten(requested[f]), keys)
           /\ \A n \in DOMAIN requested[f] :
                 /\ requested[f][n] = Chunk(keys, n)
                 /\ Len(requested[f][n]) >= 1
                 /\ Len(requested[f][n]) <= batch_size
                 /\ n < count => Len(requested[f][n]) = batch_size
           /\ Len(requested[f]) <= count
           /\ Saved(f) => Flatten(requested[f]) = keys

C10_Witness ==
    /\ Saved(FrName)
    /\ batch_size = 2
    /\ Len(requested[FrName]) = 2
    /\ Len(requested[FrName][1]) = 2
    /\ Len(requested[FrName][2]) = 1

====
